---- MODULE Spec2Model ----
(***************************************************************************)
(* GEMA_Launcher (src/main.rs): recovery of (index, title, artist,        *)
(* duration) records from audio filenames and text listings.              *)
(*                                                                         *)
(* Strings are sequences of one-character strings.  Durations (f64 in the  *)
(* source) are exact decimals, kept as integers in units of               *)
(* 10^-FracDigits seconds; Option<f64> is a record [some, val].           *)
(*                                                                         *)
(* Five specifications share the definitions: Spec (the application:       *)
(* files are added, passes run over a fixed disk), SpecListing (one pass   *)
(* over three listings, the middle one of any content), SpecTok (the       *)
(* tokenizer's loop over any token sequence), SpecDur (parse_duration and  *)
(* format_duration on any short text) and SpecTwoTexts (one pass over a    *)
(* listing of two pairs of any track texts).  export_csv only reads the    *)
(* registry (its one write is a diagnostic when the CSV file cannot be     *)
(* written, between passes) and is left out.                               *)
(***************************************************************************)
EXTENDS Integers, Sequences, FiniteSets, TLC

VARIABLES
    filenames,       \* GemaLauncherApp.filenames
    tracks,          \* GemaLauncherApp.tracks
    error_messages,  \* GemaLauncherApp.error_messages
    label_dict,      \* GemaLauncherApp.label_dict, in its iteration order
    fs,              \* the file system: listing path -> content
    pc,              \* position of the handler that is running
    pass_files,      \* parse_filenames: filenames_clone
    file_idx,        \* parse_filenames: position of the for loop
    pairs,           \* parse_text_file: track_duration_pairs
    pair_idx,        \* parse_text_file: position of the loop over the pairs
    accepted,        \* history: the pairs of this pass that had a valid duration
    file_base,       \* history: registry and log sizes when the current file began
    last_pass,       \* history: input and outcome of the previous finished pass
    dropped,         \* update: the dropped / picked files not yet added
    is_alternating,  \* parse_text_file: is_alternating
    tokens,          \* parse_track_filename: tokens
    tok_pos,         \* parse_track_filename: position of the for loop
    tok_st,          \* parse_track_filename: state and the three token groups
    tok_out,         \* parse_track_filename: the returned triple
    dur_str,         \* parse_duration: the string it is given
    dur_seconds,     \* the Option<f64> parse_duration returned
    dur_text,        \* the String format_duration returned
    dur_pc           \* position of the duration round trip

appVars == <<filenames, tracks, error_messages, label_dict, fs, pc, pass_files,
             file_idx, pairs, pair_idx, accepted, file_base, last_pass, dropped,
             is_alternating>>
tokVars == <<tokens, tok_pos, tok_st, tok_out>>
durVars == <<dur_str, dur_seconds, dur_text, dur_pc>>
vars == <<appVars, tokVars, durVars>>

(***************************************************************************)
(* Characters and strings                                                  *)
(***************************************************************************)
UpperLetters == {"A", "B", "W", "V", "M", "P", "T", "X"}
LowerLetters == {"a", "b", "w", "v", "m", "p", "t", "x"}
Digits == {"0", "1", "2", "3", "4", "5", "6", "7", "8", "9"}

\* char::is_alphabetic, char::is_uppercase, char::is_digit(10)
IsAlphabetic(c) == c \in UpperLetters \cup LowerLetters
IsUppercase(c) == c \in UpperLetters
IsDigit(c) == c \in Digits

\* char lowercase / uppercase mapping (ASCII letters)
LowerChar(c) ==
    CASE c = "A" -> "a" [] c = "B" -> "b" [] c = "W" -> "w" [] c = "V" -> "v"
      [] c = "M" -> "m" [] c = "P" -> "p" [] c = "T" -> "t" [] c = "X" -> "x"
      [] OTHER -> c
UpperChar(c) ==
    CASE c = "a" -> "A" [] c = "b" -> "B" [] c = "w" -> "W" [] c = "v" -> "V"
      [] c = "m" -> "M" [] c = "p" -> "P" [] c = "t" -> "T" [] c = "x" -> "X"
      [] OTHER -> c

\* str::to_lowercase, str::to_uppercase
ToLowercase(s) == [i \in 1..Len(s) |-> LowerChar(s[i])]
ToUppercase(s) == [i \in 1..Len(s) |-> UpperChar(s[i])]

\* str::replace(from, to) for single characters
ReplaceChar(s, from, to) == [i \in 1..Len(s) |-> IF s[i] = from THEN to ELSE s[i]]

\* str::contains(char)
Contains(s, c) == \E i \in 1..Len(s) : s[i] = c

\* str::starts_with
StartsWith(s, p) == Len(p) <= Len(s) /\ SubSeq(s, 1, Len(p)) = p

\* str::split(char): the parts between the separators, empty parts kept
SplitChar(s, c) ==
    LET seps == {i \in 1..Len(s) : s[i] = c}
        n == Cardinality(seps)
        Sep(k) == IF k = 0 THEN 0
                  ELSE IF k = n + 1 THEN Len(s) + 1
                  ELSE CHOOSE i \in seps : Cardinality({j \in seps : j < i}) = k - 1
    IN  [k \in 1..(n + 1) |-> SubSeq(s, Sep(k - 1) + 1, Sep(k) - 1)]

\* str::split_whitespace: the maximal runs of non-whitespace characters
SplitWhitespace(s) == SelectSeq(SplitChar(s, " "), LAMBDA p : p # <<>>)

\* str::trim
RECURSIVE TrimStart(_)
TrimStart(s) == IF s # <<>> /\ Head(s) = " " THEN TrimStart(Tail(s)) ELSE s
RECURSIVE TrimEnd(_)
TrimEnd(s) ==
    IF s # <<>> /\ s[Len(s)] = " " THEN TrimEnd(SubSeq(s, 1, Len(s) - 1)) ELSE s
Trim(s) == TrimEnd(TrimStart(s))

\* [&str]::join(sep)
RECURSIVE Join(_, _)
Join(parts, sep) ==
    IF parts = <<>> THEN <<>>
    ELSE IF Len(parts) = 1 THEN parts[1]
    ELSE parts[1] \o sep \o Join(Tail(parts), sep)

(***************************************************************************)
(* parse_track_filename: the tokenizer                                     *)
(***************************************************************************)
\* an extension stripping that cuts at the last '.', as Path::file_stem does
RemoveExtensionAtLastDot(filename) ==
    LET dots == {i \in 1..Len(filename) : filename[i] = "."}
    IN  IF dots = {} THEN filename
        ELSE SubSeq(filename, 1, (CHOOSE i \in dots : \A j \in dots : j <= i) - 1)

remove_extension(filename) == SplitChar(filename, ".")[1]

Tokenize(filename) == SplitWhitespace(ReplaceChar(remove_extension(filename), "_", " "))

contains_digit(t) == \E i \in 1..Len(t) : IsDigit(t[i])

is_upper_token(t) ==
    /\ \A i \in 1..Len(t) : IsAlphabetic(t[i]) => IsUppercase(t[i])
    /\ \E i \in 1..Len(t) : IsAlphabetic(t[i])

TokStart ==
    [state |-> "BEFORE_DIGIT", index_tokens |-> <<>>, title_tokens |-> <<>>,
     artist_tokens |-> <<>>]

\* the four arms of the match on state
ArmBeforeDigit(st, t) ==
    [st EXCEPT !.index_tokens = Append(@, t),
               !.state = IF contains_digit(t) THEN "AFTER_DIGIT_BEFORE_TITLE" ELSE @]

ArmAfterDigit(st, t) ==
    IF is_upper_token(t)
    THEN [st EXCEPT !.title_tokens = Append(@, t), !.state = "TITLE"]
    ELSE [st EXCEPT !.index_tokens = Append(@, t)]

ArmTitleDropsBreaker(st, t) ==
    IF is_upper_token(t)
    THEN [st EXCEPT !.title_tokens = Append(@, t)]
    ELSE [st EXCEPT !.state = "ARTIST"]

ArmTitle(st, t) ==
    IF is_upper_token(t)
    THEN [st EXCEPT !.title_tokens = Append(@, t)]
    ELSE [st EXCEPT !.artist_tokens = Append(@, t), !.state = "ARTIST"]

ArmArtistResumesTitle(st, t) ==
    IF is_upper_token(t)
    THEN [st EXCEPT !.title_tokens = Append(@, t)]
    ELSE [st EXCEPT !.artist_tokens = Append(@, t)]

ArmArtist(st, t) == [st EXCEPT !.artist_tokens = Append(@, t)]

TokStep(st, t) ==
    CASE st.state = "BEFORE_DIGIT" -> ArmBeforeDigit(st, t)
      [] st.state = "AFTER_DIGIT_BEFORE_TITLE" -> ArmAfterDigit(st, t)
      [] st.state = "TITLE" -> ArmTitle(st, t)
      [] st.state = "ARTIST" -> ArmArtist(st, t)
      [] OTHER -> st

RECURSIVE TokRun(_, _)
TokRun(st, toks) == IF toks = <<>> THEN st ELSE TokRun(TokStep(st, Head(toks)), Tail(toks))

TokResultKeepsCase(st) ==
    [index |-> Join(st.index_tokens, <<"_">>),
     titel |-> Join(st.title_tokens, <<" ">>),
     kuenstler |-> Join(st.artist_tokens, <<" ">>)]

\* the returned (index_str, title_str, artist_str)
TokResult(st) ==
    [index |-> ToLowercase(Join(st.index_tokens, <<"_">>)),
     titel |-> ToLowercase(Join(st.title_tokens, <<" ">>)),
     kuenstler |-> ToLowercase(Join(st.artist_tokens, <<" ">>))]

parse_track_filename(filename) == TokResult(TokRun(TokStart, Tokenize(filename)))

(***************************************************************************)
(* parse_duration and format_duration.  The value of "main.decimal" is     *)
(* exact while the fraction has at most FracDigits digits, which every     *)
(* duration text of this model has.  The arithmetic is that of exact       *)
(* decimals:                                                               *)
(* the binary rounding of f64 is left out, it does not reach the           *)
(* hundredths for the magnitudes of this model.  The alphabet holds no     *)
(* 'e'/'E', so no text has an exponent, and "inf"/"nan" never survive the  *)
(* inserted '.'.                                                           *)
(***************************************************************************)
FracDigits == 3

RECURSIVE Pow10(_)
Pow10(n) == IF n = 0 THEN 1 ELSE 10 * Pow10(n - 1)

DigitVal(c) ==
    CASE c = "0" -> 0 [] c = "1" -> 1 [] c = "2" -> 2 [] c = "3" -> 3 [] c = "4" -> 4
      [] c = "5" -> 5 [] c = "6" -> 6 [] c = "7" -> 7 [] c = "8" -> 8 [] c = "9" -> 9

RECURSIVE DecimalNat(_)
DecimalNat(ds) ==
    IF ds = <<>> THEN 0
    ELSE 10 * DecimalNat(SubSeq(ds, 1, Len(ds) - 1)) + DigitVal(ds[Len(ds)])

AllDigits(s) == \A i \in 1..Len(s) : IsDigit(s[i])

None == [some |-> FALSE, val |-> 0]
Some(v) == [some |-> TRUE, val |-> v]

\* "{main}.{decimal}".parse::<f64>(): [+-]? digits '.' digits, one digit at least
ParseF64(main_part, decimal_part) ==
    LET signed == main_part # <<>> /\ main_part[1] \in {"+", "-"}
        whole == IF signed THEN Tail(main_part) ELSE main_part
        frac == SubSeq(decimal_part, 1,
                       IF Len(decimal_part) < FracDigits THEN Len(decimal_part)
                       ELSE FracDigits)
        magnitude == DecimalNat(whole) * Pow10(FracDigits)
                       + DecimalNat(frac) * Pow10(FracDigits - Len(frac))
    IN  IF AllDigits(whole) /\ AllDigits(decimal_part)
           /\ Len(whole) + Len(decimal_part) >= 1
        THEN Some(IF signed /\ main_part[1] = "-" THEN 0 - magnitude ELSE magnitude)
        ELSE None

\* a parse_duration that takes '.' alone as the separator
ParseDurationDotsOnly(duration_str) ==
    LET parts == SplitChar(duration_str, ".")
    IN  IF Len(parts) < 2 THEN None ELSE ParseF64(parts[1], parts[2])

parse_duration(duration_str) ==
    LET parts == SplitChar(ReplaceChar(duration_str, ":", "."), ".")
    IN  IF Len(parts) < 2 THEN None ELSE ParseF64(parts[1], parts[2])

\* f64::round of value / unit: the nearest integer, halves away from zero
RoundDiv(value, unit) ==
    LET magnitude == IF value < 0 THEN 0 - value ELSE value
        rounded == (2 * magnitude + unit) \div (2 * unit)
    IN  IF value < 0 THEN 0 - rounded ELSE rounded

\* i64 "/" and "%": the quotient is cut toward zero, the remainder has the
\* sign of the dividend
TruncDiv(a, b) == IF a < 0 THEN 0 - ((0 - a) \div b) ELSE a \div b
TruncRem(a, b) == a - b * TruncDiv(a, b)

DigitChar(d) ==
    CASE d = 0 -> "0" [] d = 1 -> "1" [] d = 2 -> "2" [] d = 3 -> "3" [] d = 4 -> "4"
      [] d = 5 -> "5" [] d = 6 -> "6" [] d = 7 -> "7" [] d = 8 -> "8" [] d = 9 -> "9"

\* format!("{}", n) of an i64
RECURSIVE NatToString(_)
NatToString(n) ==
    IF n < 10 THEN <<DigitChar(n)>>
    ELSE NatToString(n \div 10) \o <<DigitChar(n % 10)>>

IntToString(n) == IF n < 0 THEN <<"-">> \o NatToString(0 - n) ELSE NatToString(n)

\* format!("{:02}", n): zeros after the sign up to the width 2, sign included
ZeroPad2(n) ==
    LET text == IntToString(n)
    IN  IF Len(text) >= 2 THEN text ELSE <<"0">> \o text

FormatDurationUnpadded(seconds) ==
    LET total_hundredths == RoundDiv(seconds, Pow10(FracDigits - 2))
    IN  IntToString(TruncDiv(total_hundredths, 100)) \o <<":">>
          \o IntToString(TruncRem(total_hundredths, 100))

format_duration(seconds) ==
    LET total_hundredths == RoundDiv(seconds, Pow10(FracDigits - 2))
        s == TruncDiv(total_hundredths, 100)
        ms == TruncRem(total_hundredths, 100)
    IN  IntToString(s) \o <<":">> \o ZeroPad2(ms)

(***************************************************************************)
(* find_label_code: the first entry, in the table's iteration order, whose *)
(* label is a prefix of the index uppercased.                              *)
(***************************************************************************)
RECURSIVE FirstMatch(_, _)
FirstMatch(entries, upper_index) ==
    IF entries = <<>> THEN ""
    ELSE IF StartsWith(upper_index, Head(entries).label) THEN Head(entries).code
    ELSE FirstMatch(Tail(entries), upper_index)

FindLabelCodeOfIndexAsWritten(dict, index_str) == FirstMatch(dict, index_str)

find_label_code(dict, index_str) == FirstMatch(dict, ToUppercase(index_str))

(***************************************************************************)
(* The direct-filename expression                                          *)
(*   ^(?P<index>.*?)(?P<titel>[A-Z_]+)_(?P<kuenstler>[^.]+)\.(wav|mp3)$    *)
(* index is lazy (the shortest that matches), titel greedy (the longest).  *)
(***************************************************************************)
DirectExtensions == {<<".", "w", "a", "v">>, <<".", "m", "p", "3">>}

IsTitelChar(c) == c \in {"A", "B", "W", "V", "M", "P", "T", "X", "_"}

\* the (i, j) with index = s[1..i], titel = s[i+1..j], '_' = s[j+1],
\* kuenstler = s[j+2..n-4], extension = s[n-3..n]
DirectSplits(s) ==
    LET n == Len(s)
    IN  IF n < 4 \/ SubSeq(s, n - 3, n) \notin DirectExtensions THEN {}
        ELSE {ij \in (0..n) \X (1..n) :
                /\ ij[1] < ij[2]
                /\ ij[2] + 2 <= n - 4
                /\ \A k \in (ij[1] + 1)..ij[2] : IsTitelChar(s[k])
                /\ s[ij[2] + 1] = "_"
                /\ \A k \in (ij[2] + 2)..(n - 4) : s[k] # "."}

re_captures(s) ==
    LET splits == DirectSplits(s)
    IN  IF splits = {} THEN [matched |-> FALSE, index |-> <<>>, titel |-> <<>>,
                             kuenstler |-> <<>>]
        ELSE LET i == CHOOSE a \in {ij[1] : ij \in splits} :
                          \A ij \in splits : a <= ij[1]
                 j == CHOOSE b \in {ij[2] : ij \in {x \in splits : x[1] = i}} :
                          \A ij \in {x \in splits : x[1] = i} : b >= ij[2]
             IN  [matched |-> TRUE, index |-> SubSeq(s, 1, i),
                  titel |-> SubSeq(s, i + 1, j),
                  kuenstler |-> SubSeq(s, j + 2, Len(s) - 4)]

(***************************************************************************)
(* Paths.  The model's paths have no directory part, so file_name() is the *)
(* path itself.                                                            *)
(***************************************************************************)
\* Path::extension(): the text after the last '.', none when the name has no
\* '.' or only a leading one
path_extension(p) ==
    LET dots == {i \in 1..Len(p) : p[i] = "."}
        last == CHOOSE i \in dots : \A j \in dots : j <= i
    IN  IF dots = {} \/ last = 1 THEN [some |-> FALSE, ext |-> <<>>]
        ELSE [some |-> TRUE, ext |-> SubSeq(p, last + 1, Len(p))]

IsTxt(p) == path_extension(p) = [some |-> TRUE, ext |-> <<"t", "x", "t">>]

(***************************************************************************)
(* The registry, the diagnostic log and the input list                     *)
(***************************************************************************)
Triple(t) == [index |-> t.index, titel |-> t.titel, kuenstler |-> t.kuenstler]

TrackInfo(triple, duration, label_code) ==
    [index |-> triple.index, titel |-> triple.titel, kuenstler |-> triple.kuenstler,
     duration |-> duration, label_code |-> label_code]

ErrorMessage(kind, path, duration_str, track) ==
    [kind |-> kind, path |-> path, duration |-> duration_str, track |-> track]

OpenError(path) == ErrorMessage("Fehler beim Parsen der Textdatei", path, <<>>, <<>>)
UnknownFormat(file_name) == ErrorMessage("Unbekanntes Format", file_name, <<>>, <<>>)
EmptyTextFile(path) == ErrorMessage("Leere Textdatei", path, <<>>, <<>>)
CountMismatch(path) ==
    ErrorMessage("Die Anzahl der Tracks und Dauern stimmt nicht ueberein", path, <<>>, <<>>)
InvalidDuration(duration_str, track) ==
    ErrorMessage("Ungueltige Dauer", <<>>, duration_str, track)

AddFileAlways(names, path) == Append(names, path)

add_file(names, path) ==
    IF \E i \in 1..Len(names) : names[i] = path THEN names ELSE Append(names, path)

RECURSIVE AddAll(_, _)
AddAll(names, batch) ==
    IF batch = <<>> THEN names ELSE AddAll(add_file(names, Head(batch)), Tail(batch))

AccumulateReplaces(existing, duration) == Some(duration)

\* existing_track.duration.map(|d| d + duration).or(Some(duration))
Accumulate(existing, duration) ==
    IF existing.some THEN Some(existing.val + duration) ELSE Some(duration)

\* a find that takes the strings of a triple up to letter case
FindTrackIgnoringCase(trks, triple) ==
    LET Folded(t) == [index |-> ToLowercase(t.index), titel |-> ToLowercase(t.titel),
                      kuenstler |-> ToLowercase(t.kuenstler)]
    IN  IF \E i \in 1..Len(trks) : Folded(trks[i]) = Folded(triple)
        THEN CHOOSE i \in 1..Len(trks) :
                /\ Folded(trks[i]) = Folded(triple)
                /\ \A j \in 1..(i - 1) : Folded(trks[j]) # Folded(triple)
        ELSE 0

\* tracks.iter_mut().find(..): the position of the first record with the triple, or 0
FindTrack(trks, triple) ==
    IF \E i \in 1..Len(trks) : Triple(trks[i]) = triple
    THEN CHOOSE i \in 1..Len(trks) :
            /\ Triple(trks[i]) = triple
            /\ \A j \in 1..(i - 1) : Triple(trks[j]) # triple
    ELSE 0

\* a merge that takes the record out and appends it anew, label code resolved again
UpsertAppendsAnew(trks, triple, duration, label_code) ==
    LET at == FindTrack(trks, triple)
    IN  IF at # 0
        THEN Append(SubSeq(trks, 1, at - 1) \o SubSeq(trks, at + 1, Len(trks)),
                    TrackInfo(triple, Accumulate(trks[at].duration, duration), label_code))
        ELSE Append(trks, TrackInfo(triple, Some(duration), label_code))

Upsert(trks, triple, duration, label_code) ==
    LET at == FindTrack(trks, triple)
    IN  IF at # 0
        THEN [trks EXCEPT ![at].duration = Accumulate(@, duration)]
        ELSE Append(trks, TrackInfo(triple, Some(duration), label_code))

(***************************************************************************)
(* parse_text_file: the lines and the two layouts                          *)
(***************************************************************************)
\* reader.lines().filter_map(Result::ok): the lines that could be read
ReadLines(content) ==
    LET kept == SelectSeq(content, LAMBDA l : l.ok)
    IN  [i \in 1..Len(kept) |-> kept[i].text]

IsAlternatingEvenPositions(lines) ==
    /\ Len(lines) % 2 = 0
    /\ \A i \in 1..Len(lines) : IF (i - 1) % 2 = 0 THEN Contains(lines[i], ":") ELSE TRUE

\* positions are 1-based here: the source's odd positions are the even ones
IsAlternating(lines) ==
    /\ Len(lines) % 2 = 0
    /\ \A i \in 1..Len(lines) : IF (i - 1) % 2 = 1 THEN Contains(lines[i], ":") ELSE TRUE

Pair(track, duration_str) == [track |-> Trim(track), duration |-> Trim(duration_str)]

\* for i in (0..lines.len()).step_by(2)
RECURSIVE AlternatingFrom(_, _)
AlternatingFrom(lines, i) ==
    IF i >= Len(lines) THEN <<>>
    ELSE <<Pair(lines[i + 1], lines[i + 2])>> \o AlternatingFrom(lines, i + 2)

AlternatingPairs(lines) == AlternatingFrom(lines, 0)

\* tracks.iter().zip(durations.iter())
RECURSIVE Zip(_, _)
Zip(a, b) ==
    IF a = <<>> \/ b = <<>> THEN <<>>
    ELSE <<Pair(Head(a), Head(b))>> \o Zip(Tail(a), Tail(b))

BlockTracks(lines) == SubSeq(lines, 1, Len(lines) \div 2)
BlockDurations(lines) == SubSeq(lines, Len(lines) \div 2 + 1, Len(lines))
BlockPairsSwapped(lines) == Zip(BlockDurations(lines), BlockTracks(lines))

BlockPairs(lines) == Zip(BlockTracks(lines), BlockDurations(lines))

(***************************************************************************)
(* The inputs of the model: texts, paths, file contents, label tables      *)
(***************************************************************************)
TrackSpaced == <<"A", "1", " ", "A", "B", " ", "x">>  \* "A1 AB x": a track text: index a1, title ab, artist x
TrackUnderscored == <<"A", "1", "_", "A", "B", "_", "x", ".", "w", "a", "v">>  \* "A1_AB_x.wav": the same triple, written as a file name
TrackOther == <<"B", "2", " ", "T">>  \* "B2 T": index b2, title t, no artist
DurPadded == <<" ", "1", ":", "3", "0">>  \* " 1:30": 1.30 s, with leading whitespace
DurTwo == <<"2", ":", "0", "0">>  \* "2:00"
DurOne == <<"1", ":", "0", "0">>  \* "1:00"
DurDotted == <<"0", ".", "0", "5">>  \* "0.05": a valid duration without a colon
DurNegative == <<"-", "1", ":", "0", "0">>  \* "-1:00": accepted by parse_duration: -1.00 s
DurBad == <<"1", ":", "x">>  \* "1:x": holds a colon, rejected by parse_duration
Blank == <<>>  \* "": a blank line
WavOne == <<"A", "1", "A", "B", "_", "x", ".", "w", "a", "v">>  \* "A1AB_x.wav": a direct file: index A1, titel AB, kuenstler x
Mp3One == <<"A", "1", "A", "B", "_", "x", ".", "m", "p", "3">>  \* "A1AB_x.mp3": the same captures under another path
WavUnknown == <<"a", "b", ".", "w", "a", "v">>  \* "ab.wav": a direct file the expression does not match
TxtAlternating == <<"t", "1", ".", "t", "x", "t">>  \* "t1.txt"
TxtBlock == <<"t", "2", ".", "t", "x", "t">>  \* "t2.txt"
TxtOdd == <<"t", "3", ".", "t", "x", "t">>  \* "t3.txt"
TxtMissing == <<"t", "4", ".", "t", "x", "t">>  \* "t4.txt"
TxtEmpty == <<"t", "5", ".", "t", "x", "t">>  \* "t5.txt"
LabelA == <<"A">>  \* "A"
LabelA1 == <<"A", "1">>  \* "A1": a longer prefix of the indices LabelA matches
LabelLower == <<"b">>  \* "b": a key that is not uppercase

Readable(text) == [ok |-> TRUE, text |-> text]
Unreadable == [ok |-> FALSE, text |-> <<>>]
FileOf(lines) == [exists |-> TRUE, lines |-> lines]
NoFile == [exists |-> FALSE, lines |-> <<>>]

Files == {WavOne, Mp3One, WavUnknown, TxtAlternating, TxtBlock, TxtOdd, TxtMissing,
          TxtEmpty}

\* the file system of the application runs
DiskFs ==
    (TxtAlternating :> FileOf(<<Readable(TrackSpaced), Readable(DurPadded),
                               Readable(TrackUnderscored), Readable(DurTwo),
                               Readable(TrackOther), Readable(DurBad)>>))
    @@ (TxtBlock :> FileOf(<<Readable(TrackOther), Readable(TrackSpaced),
                            Readable(DurOne), Readable(DurNegative)>>))
    @@ (TxtOdd :> FileOf(<<Readable(TrackSpaced), Readable(DurPadded),
                          Readable(TrackOther)>>))
    @@ (TxtMissing :> NoFile)
    @@ (TxtEmpty :> FileOf(<<Unreadable>>))

\* the lines a listing is drawn from when one listing is parsed on its own
ListingLines ==
    {Readable(TrackSpaced), Readable(TrackUnderscored), Readable(TrackOther),
     Readable(DurPadded), Readable(DurDotted), Readable(DurNegative), Readable(DurBad),
     Readable(Blank), Unreadable}

MaxLines == 4
MaxFiles == 3
MaxBatch == 2

SeqsUpTo(S, n) == UNION {[1..k -> S] : k \in 0..n}

\* label tables: labelcodes.json absent (empty), or its three entries in an
\* iteration order of the HashMap (each entry comes first in one of them)
LabelTables ==
    LET a == [label |-> LabelA, code |-> "LC-A"]
        a1 == [label |-> LabelA1, code |-> "LC-A1"]
        lo == [label |-> LabelLower, code |-> "LC-lower"]
    IN  {<<>>, <<a, a1, lo>>, <<a1, a, lo>>, <<lo, a1, a>>}

(***************************************************************************)
(* The application: update() adds the dropped or picked files one by one   *)
(* and then runs parse_filenames(), a loop over the files and, inside      *)
(* parse_text_file(), over the pairs.  While a handler runs nothing else   *)
(* does (one thread).                                                      *)
(***************************************************************************)
NoPass == [valid |-> FALSE, files |-> <<>>, tracks |-> <<>>, errors |-> <<>>]
NoBase == [file |-> 0, errors |-> 0, tracks |-> <<>>]

TokIdle ==
    /\ tokens = <<>>
    /\ tok_pos = 1
    /\ tok_st = TokStart
    /\ tok_out = [returned |-> FALSE, triple |-> TokResult(TokStart)]

DurIdle ==
    /\ dur_str = <<>>
    /\ dur_seconds = None
    /\ dur_text = <<>>
    /\ dur_pc = "idle"

Init ==
    /\ filenames = <<>>
    /\ tracks = <<>>
    /\ error_messages = <<>>
    /\ label_dict \in LabelTables
    /\ fs = DiskFs
    /\ pc = "idle"
    /\ pass_files = <<>>
    /\ file_idx = 1
    /\ pairs = <<>>
    /\ pair_idx = 1
    /\ is_alternating = FALSE
    /\ dropped = <<>>
    /\ accepted = <<>>
    /\ file_base = NoBase
    /\ last_pass = NoPass
    /\ TokIdle
    /\ DurIdle

\* update(): files were dropped on the window, or picked in the dialog
Update ==
    /\ pc = "idle"
    /\ \E batch \in SeqsUpTo(Files, MaxBatch) :
          /\ batch # <<>>
          /\ Len(AddAll(filenames, batch)) <= MaxFiles
          /\ dropped' = batch
    /\ pc' = "add"
    /\ UNCHANGED <<filenames, tracks, error_messages, label_dict, fs, pass_files,
                   file_idx, pairs, pair_idx, is_alternating, accepted, file_base,
                   last_pass, tokVars, durVars>>

\* self.add_file(path) for the next dropped file
AddFile ==
    /\ pc = "add"
    /\ dropped # <<>>
    /\ filenames' = add_file(filenames, Head(dropped))
    /\ dropped' = Tail(dropped)
    /\ UNCHANGED <<tracks, error_messages, label_dict, fs, pc, pass_files, file_idx,
                   pairs, pair_idx, is_alternating, accepted, file_base, last_pass,
                   tokVars, durVars>>

ClearedTracksKept(trks) == trks

\* what parse_filenames() does before its loop
ClearedTracks(trks) == <<>>
ClearedErrors(errs) == <<>>

ParseFilenamesBegin ==
    /\ pc = "add"
    /\ dropped = <<>>
    /\ tracks' = ClearedTracks(tracks)
    /\ error_messages' = ClearedErrors(error_messages)
    /\ pass_files' = filenames
    /\ file_idx' = 1
    /\ pairs' = <<>>
    /\ pair_idx' = 1
    /\ is_alternating' = FALSE
    /\ accepted' = <<>>
    /\ file_base' = NoBase
    /\ pc' = "file"
    /\ UNCHANGED <<filenames, label_dict, fs, dropped, last_pass, tokVars, durVars>>

InLoop == pc = "file" /\ file_idx <= Len(pass_files)
Filename == pass_files[file_idx]
Lines == ReadLines(fs[Filename].lines)

\* the record or the diagnostic of a direct (non-.txt) file
DirectTracks(trks, dict, file_name) ==
    LET caps == re_captures(file_name)
    IN  IF caps.matched
        THEN Append(trks, TrackInfo(Triple(caps), None, find_label_code(dict, caps.index)))
        ELSE trks

DirectErrors(errs, file_name) ==
    IF re_captures(file_name).matched THEN errs ELSE Append(errs, UnknownFormat(file_name))

DirectFile ==
    /\ InLoop
    /\ ~IsTxt(Filename)
    /\ tracks' = DirectTracks(tracks, label_dict, Filename)
    /\ error_messages' = DirectErrors(error_messages, Filename)
    /\ file_idx' = file_idx + 1
    /\ UNCHANGED <<filenames, label_dict, fs, pc, pass_files, pairs, pair_idx,
                   is_alternating, dropped, accepted, file_base, last_pass, tokVars, durVars>>

SkipFileEndsPass(message) ==
    /\ error_messages' = Append(error_messages, message)
    /\ file_idx' = Len(pass_files) + 1
    /\ UNCHANGED <<filenames, tracks, label_dict, fs, pc, pass_files, pairs, pair_idx,
                   is_alternating, dropped, accepted, file_base, last_pass, tokVars, durVars>>

\* parse_text_file returned without pairs: one diagnostic, the next file follows
SkipFile(message) ==
    /\ error_messages' = Append(error_messages, message)
    /\ file_idx' = file_idx + 1
    /\ UNCHANGED <<filenames, tracks, label_dict, fs, pc, pass_files, pairs, pair_idx,
                   is_alternating, dropped, accepted, file_base, last_pass, tokVars, durVars>>

\* File::open(path)? fails: parse_filenames logs the error
TextFileOpenError ==
    /\ InLoop
    /\ IsTxt(Filename)
    /\ ~fs[Filename].exists
    /\ SkipFile(OpenError(Filename))

TextFileEmpty ==
    /\ InLoop
    /\ IsTxt(Filename)
    /\ fs[Filename].exists
    /\ Lines = <<>>
    /\ SkipFile(EmptyTextFile(Filename))

HalvesNeverDiffer(lines) == FALSE

HalvesDiffer(lines) == Len(BlockTracks(lines)) # Len(BlockDurations(lines))

TextFileMismatch ==
    /\ InLoop
    /\ IsTxt(Filename)
    /\ fs[Filename].exists
    /\ Lines # <<>>
    /\ ~IsAlternating(Lines)
    /\ HalvesDiffer(Lines)
    /\ SkipFile(CountMismatch(Filename))

BuildPairs(lines) ==
    IF IsAlternating(lines) THEN AlternatingPairs(lines) ELSE BlockPairs(lines)

TextFilePairs ==
    /\ InLoop
    /\ IsTxt(Filename)
    /\ fs[Filename].exists
    /\ Lines # <<>>
    /\ IsAlternating(Lines) \/ ~HalvesDiffer(Lines)
    /\ is_alternating' = IsAlternating(Lines)
    /\ pairs' = BuildPairs(Lines)
    /\ pair_idx' = 1
    /\ file_base' = [file |-> file_idx, errors |-> Len(error_messages), tracks |-> tracks]
    /\ pc' = "pair"
    /\ UNCHANGED <<filenames, tracks, error_messages, label_dict, fs, pass_files,
                   file_idx, dropped, accepted, last_pass, tokVars, durVars>>

\* one turn of the loop over track_duration_pairs
InPairs == pc = "pair" /\ pair_idx <= Len(pairs)
ThisPair == pairs[pair_idx]

NextPair ==
    /\ pair_idx' = pair_idx + 1
    /\ pc' = IF pair_idx = Len(pairs) THEN "file" ELSE "pair"
    /\ file_idx' = IF pair_idx = Len(pairs) THEN file_idx + 1 ELSE file_idx

\* "continue" after the diagnostic of an invalid duration
SkipPairAbortsFile ==
    /\ pair_idx' = pair_idx + 1
    /\ pc' = "file"
    /\ file_idx' = file_idx + 1

SkipPair == NextPair

PairInvalidDuration ==
    /\ InPairs
    /\ ~parse_duration(ThisPair.duration).some
    /\ error_messages' = Append(error_messages,
                                InvalidDuration(ThisPair.duration, ThisPair.track))
    /\ SkipPair
    /\ UNCHANGED <<filenames, tracks, label_dict, fs, pass_files, pairs, is_alternating,
                   dropped, accepted, file_base, last_pass, tokVars, durVars>>

PairUpsert ==
    /\ InPairs
    /\ parse_duration(ThisPair.duration).some
    /\ LET triple == parse_track_filename(ThisPair.track)
           duration == parse_duration(ThisPair.duration).val
       IN  /\ tracks' = Upsert(tracks, triple, duration,
                               find_label_code(label_dict, triple.index))
           /\ accepted' = Append(accepted, [triple |-> triple, duration |-> duration,
                                            file |-> file_idx])
    /\ NextPair
    /\ UNCHANGED <<filenames, error_messages, label_dict, fs, pass_files, pairs,
                   is_alternating, dropped, file_base, last_pass, tokVars, durVars>>

\* parse_filenames() returns; the history keeps what the pass saw and produced
PassDone == pc = "file" /\ file_idx > Len(pass_files)

ParseFilenamesReturn ==
    /\ PassDone
    /\ pc' = "idle"
    /\ last_pass' = [valid |-> TRUE, files |-> pass_files, tracks |-> tracks,
                     errors |-> error_messages]
    /\ UNCHANGED <<filenames, tracks, error_messages, label_dict, fs, pass_files,
                   file_idx, pairs, pair_idx, is_alternating, dropped, accepted,
                   file_base, tokVars, durVars>>

Next ==
    \/ Update
    \/ AddFile
    \/ ParseFilenamesBegin
    \/ DirectFile
    \/ TextFileOpenError
    \/ TextFileEmpty
    \/ TextFileMismatch
    \/ TextFilePairs
    \/ PairInvalidDuration
    \/ PairUpsert
    \/ ParseFilenamesReturn

Spec == Init /\ [][Next]_vars

(***************************************************************************)
(* A pass over three listings, the middle one drawn: its content is any    *)
(* sequence of at most MaxLines lines, or the file cannot be opened.       *)
(***************************************************************************)
TxtDrawn == <<"t", "0", ".", "t", "x", "t">>  \* "t0.txt"

DrawnContents == {NoFile} \cup {FileOf(l) : l \in SeqsUpTo(ListingLines, MaxLines)}

\* the state in which parse_filenames() enters its loop
InitListing ==
    /\ filenames = <<TxtBlock, TxtDrawn, TxtAlternating>>
    /\ tracks = <<>>
    /\ error_messages = <<>>
    /\ label_dict = <<[label |-> LabelA, code |-> "LC-A"]>>
    /\ fs \in {(TxtDrawn :> c) @@ DiskFs : c \in DrawnContents}
    /\ pc = "file"
    /\ pass_files = filenames
    /\ file_idx = 1
    /\ pairs = <<>>
    /\ pair_idx = 1
    /\ is_alternating = FALSE
    /\ dropped = <<>>
    /\ accepted = <<>>
    /\ file_base = NoBase
    /\ last_pass = NoPass
    /\ TokIdle
    /\ DurIdle

NextListing ==
    \/ TextFileOpenError
    \/ TextFileEmpty
    \/ TextFileMismatch
    \/ TextFilePairs
    \/ PairInvalidDuration
    \/ PairUpsert
    \/ ParseFilenamesReturn

SpecListing == InitListing /\ [][NextListing]_vars

(***************************************************************************)
(* The tokenizer on its own: the loop of parse_track_filename over any     *)
(* sequence of at most MaxTokens tokens.                                   *)
(***************************************************************************)
MaxTokens == 4

TokenKinds ==
    {<<"1">>,          \* digits only
     <<"A", "1">>,     \* digit-bearing and upper
     <<"A">>, <<"B">>, \* upper
     <<"b">>,          \* lower
     <<"A", "b">>,     \* mixed case
     <<"-">>}          \* neither letters nor digits

InitTok ==
    /\ tokens \in SeqsUpTo(TokenKinds, MaxTokens)
    /\ tok_pos = 1
    /\ tok_st = TokStart
    /\ tok_out = [returned |-> FALSE, triple |-> TokResult(TokStart)]
    /\ DurIdle
    /\ filenames = <<>>
    /\ tracks = <<>>
    /\ error_messages = <<>>
    /\ label_dict = <<>>
    /\ fs = DiskFs
    /\ pc = "idle"
    /\ pass_files = <<>>
    /\ file_idx = 1
    /\ pairs = <<>>
    /\ pair_idx = 1
    /\ is_alternating = FALSE
    /\ dropped = <<>>
    /\ accepted = <<>>
    /\ file_base = NoBase
    /\ last_pass = NoPass

\* one turn of "for t in tokens"
TokTurn ==
    /\ ~tok_out.returned
    /\ tok_pos <= Len(tokens)
    /\ tok_st' = TokStep(tok_st, tokens[tok_pos])
    /\ tok_pos' = tok_pos + 1
    /\ UNCHANGED <<tokens, tok_out, appVars, durVars>>

TokBeforeDigit ==
    /\ tok_st.state = "BEFORE_DIGIT"
    /\ TokTurn

TokAfterDigit ==
    /\ tok_st.state = "AFTER_DIGIT_BEFORE_TITLE"
    /\ TokTurn

TokTitle ==
    /\ tok_st.state = "TITLE"
    /\ TokTurn

TokArtist ==
    /\ tok_st.state = "ARTIST"
    /\ TokTurn

TokReturn ==
    /\ ~tok_out.returned
    /\ tok_pos > Len(tokens)
    /\ tok_out' = [returned |-> TRUE, triple |-> TokResult(tok_st)]
    /\ UNCHANGED <<tokens, tok_pos, tok_st, appVars, durVars>>

NextTok ==
    \/ TokBeforeDigit
    \/ TokAfterDigit
    \/ TokTitle
    \/ TokArtist
    \/ TokReturn

SpecTok == InitTok /\ [][NextTok]_vars

(***************************************************************************)
(* A pass over one listing of two pairs whose track texts are any short    *)
(* texts; the durations are "1:00" and "2:00".                             *)
(***************************************************************************)
MaxNameLen == 3

NameChars == {"1", "A", ".", " "}

TwoTextListings ==
    {FileOf(<<Readable(x), Readable(DurOne), Readable(y), Readable(DurTwo)>>) :
        x, y \in SeqsUpTo(NameChars, MaxNameLen)}

InitTwoTexts ==
    /\ filenames = <<TxtDrawn>>
    /\ tracks = <<>>
    /\ error_messages = <<>>
    /\ label_dict = <<[label |-> LabelA, code |-> "LC-A"]>>
    /\ fs \in {(TxtDrawn :> c) @@ DiskFs : c \in TwoTextListings}
    /\ pc = "file"
    /\ pass_files = filenames
    /\ file_idx = 1
    /\ pairs = <<>>
    /\ pair_idx = 1
    /\ is_alternating = FALSE
    /\ dropped = <<>>
    /\ accepted = <<>>
    /\ file_base = NoBase
    /\ last_pass = NoPass
    /\ TokIdle
    /\ DurIdle

NextTwoTexts ==
    \/ TextFilePairs
    \/ PairUpsert
    \/ ParseFilenamesReturn

SpecTwoTexts == InitTwoTexts /\ [][NextTwoTexts]_vars

(***************************************************************************)
(* The duration round trip on its own: any short text is given to          *)
(* parse_duration, and the value it returns, if any, to format_duration.   *)
(***************************************************************************)
MaxDurLen == 5

DurChars == {"0", "1", "5", ":", ".", "-", "x"}

\* the texts up to MaxDurLen characters whose fraction part, if they have one,
\* has at most FracDigits characters
DurTexts ==
    {x \in SeqsUpTo(DurChars, MaxDurLen) :
        LET parts == SplitChar(ReplaceChar(x, ":", "."), ".")
        IN  Len(parts) >= 2 => Len(parts[2]) <= FracDigits}

InitDur ==
    /\ dur_str \in DurTexts
    /\ dur_seconds = None
    /\ dur_text = <<>>
    /\ dur_pc = "call"
    /\ TokIdle
    /\ filenames = <<>>
    /\ tracks = <<>>
    /\ error_messages = <<>>
    /\ label_dict = <<>>
    /\ fs = DiskFs
    /\ pc = "idle"
    /\ pass_files = <<>>
    /\ file_idx = 1
    /\ pairs = <<>>
    /\ pair_idx = 1
    /\ is_alternating = FALSE
    /\ dropped = <<>>
    /\ accepted = <<>>
    /\ file_base = NoBase
    /\ last_pass = NoPass

DurParse ==
    /\ dur_pc = "call"
    /\ dur_seconds' = parse_duration(dur_str)
    /\ dur_pc' = "parsed"
    /\ UNCHANGED <<dur_str, dur_text, appVars, tokVars>>

DurFormat ==
    /\ dur_pc = "parsed"
    /\ dur_seconds.some
    /\ dur_text' = format_duration(dur_seconds.val)
    /\ dur_pc' = "formatted"
    /\ UNCHANGED <<dur_str, dur_seconds, appVars, tokVars>>

NextDur ==
    \/ DurParse
    \/ DurFormat

SpecDur == InitDur /\ [][NextDur]_vars

(***************************************************************************)
(* Properties of the tokenizer (SpecTok)                                   *)
(***************************************************************************)
Groups == {"index", "title", "artist"}

\* the tokens of toks at the positions that g sends to group, in input order
TokensOf(toks, g, group) ==
    LET at == {i \in DOMAIN g : g[i] = group}
    IN  [k \in 1..Cardinality(at) |->
            toks[CHOOSE i \in at : Cardinality({j \in at : j < i}) = k - 1]]

\* the tokens taken so far
Consumed == tok_pos - 1

\* C1: every token taken so far sits in exactly one of the three groups, none is
\* dropped or duplicated, and each group keeps the input order: some assignment
\* of the input positions to the groups yields exactly the three groups.
C1_EveryTokenInOneGroup ==
    \E g \in [1..Consumed -> Groups] :
        /\ tok_st.index_tokens = TokensOf(tokens, g, "index")
        /\ tok_st.title_tokens = TokensOf(tokens, g, "title")
        /\ tok_st.artist_tokens = TokensOf(tokens, g, "artist")

C1_Witness ==
    /\ tok_out.returned
    /\ Len(tokens) = MaxTokens
    /\ tok_st.index_tokens # <<>>
    /\ tok_st.title_tokens # <<>>
    /\ Len(tok_st.artist_tokens) >= 2
    /\ tok_st.artist_tokens[1] = tok_st.index_tokens[1]

\* the reference grouping of C2, by positions of the input
FirstDigitAt(toks) ==
    IF \E i \in 1..Len(toks) : contains_digit(toks[i])
    THEN CHOOSE i \in 1..Len(toks) :
            contains_digit(toks[i]) /\ \A j \in 1..(i - 1) : ~contains_digit(toks[j])
    ELSE 0

\* the first upper token after the first digit-bearing token, 0 when there is none
TitleFrom(toks) ==
    LET d == FirstDigitAt(toks)
        after == {i \in (d + 1)..Len(toks) : is_upper_token(toks[i])}
    IN  IF d = 0 \/ after = {} THEN 0 ELSE CHOOSE i \in after : \A j \in after : i <= j

\* the last token of the run of upper tokens that starts at TitleFrom
TitleTo(toks) ==
    LET u == TitleFrom(toks)
    IN  IF u = 0 THEN 0
        ELSE CHOOSE v \in u..Len(toks) :
                /\ \A k \in u..v : is_upper_token(toks[k])
                /\ v = Len(toks) \/ ~is_upper_token(toks[v + 1])

RefIndex(toks) ==
    LET d == FirstDigitAt(toks)
        u == TitleFrom(toks)
        at == {i \in 1..Len(toks) :
                 \/ d = 0
                 \/ i <= d
                 \/ ~is_upper_token(toks[i]) /\ (u = 0 \/ i < u)}
    IN  TokensOf(toks, [i \in 1..Len(toks) |-> IF i \in at THEN "index" ELSE "rest"],
                 "index")

RefTitle(toks) ==
    IF TitleFrom(toks) = 0 THEN <<>> ELSE SubSeq(toks, TitleFrom(toks), TitleTo(toks))

RefArtist(toks) ==
    IF TitleFrom(toks) = 0 THEN <<>> ELSE SubSeq(toks, TitleTo(toks) + 1, Len(toks))

\* C2: when the tokenizer returns, its three groups are the reference grouping:
\* index = the tokens up to the first digit-bearing one and the non-upper tokens
\* that follow it before the title (all tokens when none bears a digit), title =
\* the run of upper tokens from the first upper token after that digit-bearing
\* token, artist = every token after that run.
C2_GroupingIsReference ==
    tok_out.returned =>
        /\ tok_st.index_tokens = RefIndex(tokens)
        /\ tok_st.title_tokens = RefTitle(tokens)
        /\ tok_st.artist_tokens = RefArtist(tokens)

\* a pure-digit token interrupts the uppercase run, and a later upper token
\* lands in the artist group
C2_Witness ==
    /\ tok_out.returned
    /\ tok_st.title_tokens # <<>>
    /\ Len(tok_st.artist_tokens) >= 2
    /\ ~is_upper_token(tok_st.artist_tokens[1])
    /\ AllDigits(tok_st.artist_tokens[1])
    /\ is_upper_token(tok_st.artist_tokens[2])

(***************************************************************************)
(* Properties of the listing parser and of the pass                        *)
(***************************************************************************)
\* the records of the registry with a given identity triple
RecordsOf(triple) == {i \in 1..Len(tracks) : Triple(tracks[i]) = triple}

\* the accepted pairs (history) with a given triple, and the sum of their durations
AcceptedOf(triple) == {k \in 1..Len(accepted) : accepted[k].triple = triple}

RECURSIVE SumOver(_)
SumOver(ks) ==
    IF ks = {} THEN 0
    ELSE LET k == CHOOSE x \in ks : TRUE IN accepted[k].duration + SumOver(ks \ {k})

FirstAccepted(triple) == CHOOSE k \in AcceptedOf(triple) : \A j \in AcceptedOf(triple) : k <= j

\* C3: at every point of a pass, the listing pairs with a valid duration that
\* share a triple have produced exactly one record; its duration is the sum of
\* their durations (exact arithmetic, so the order of the additions does not
\* show), and the records stand in the order of their first pairs, whatever
\* files the pairs came from.
C3_MergedIntoOneRecord ==
    /\ \A k \in 1..Len(accepted) :
          LET triple == accepted[k].triple
          IN  /\ Cardinality(RecordsOf(triple)) = 1
              /\ \A i \in RecordsOf(triple) :
                    tracks[i].duration = Some(SumOver(AcceptedOf(triple)))
    /\ \A k1, k2 \in 1..Len(accepted) :
          LET t1 == accepted[k1].triple
              t2 == accepted[k2].triple
          IN  FirstAccepted(t1) < FirstAccepted(t2) =>
                 \A i1 \in RecordsOf(t1), i2 \in RecordsOf(t2) : i1 < i2

\* one record fed by two pairs of one file and by a pair of another file,
\* standing before a record created later
C3_Witness ==
    /\ PassDone
    /\ \E k1, k2, k3 \in 1..Len(accepted) :
          /\ k1 < k2
          /\ accepted[k1].file = accepted[k2].file
          /\ accepted[k3].file # accepted[k1].file
          /\ accepted[k1].triple = accepted[k2].triple
          /\ accepted[k1].triple = accepted[k3].triple
          /\ accepted[k1].duration # accepted[k2].duration
    /\ Len(tracks) >= 2

InPass == pc \in {"file", "pair"}

\* C4: within a pass, a step never lowers a duration that is present.
C4_DurationNeverDecreases ==
    [][InPass =>
         \A i \in 1..Len(tracks) :
            tracks[i].duration.some =>
               /\ i <= Len(tracks')
               /\ tracks'[i].duration.some
               /\ tracks'[i].duration.val >= tracks[i].duration.val]_vars

IsLowercase(str) == str = ToLowercase(str)

RecordIsLowercase(t) ==
    IsLowercase(t.index) /\ IsLowercase(t.titel) /\ IsLowercase(t.kuenstler)

\* C5 as stated: after a pass the strings of every record are lowercase.
C5_AllRecordsLowercase == PassDone => \A i \in 1..Len(tracks) : RecordIsLowercase(tracks[i])

\* C5 amended: the strings of every listing-derived record (every record whose
\* duration is present) are lowercase; direct-filename records keep their case.
C5_ListingRecordsLowercase ==
    \A i \in 1..Len(tracks) : tracks[i].duration.some => RecordIsLowercase(tracks[i])

C5_Witness ==
    /\ PassDone
    /\ \E i, j \in 1..Len(tracks) :
          /\ tracks[i].duration.some
          /\ tracks[i].index = <<"a", "1">>
          /\ tracks[i].titel = <<"a", "b">>
          /\ ~tracks[j].duration.some
          /\ ~RecordIsLowercase(tracks[j])

\* C6: a pass starts from an empty registry and an empty log, and a pass over
\* the input set of the previous pass ends with the previous pass's records
\* (order, durations, label codes) and diagnostics.
C6_PassIsRepeatable ==
    /\ (pc = "file" /\ file_idx = 1) => tracks = <<>> /\ error_messages = <<>>
    /\ (PassDone /\ last_pass.valid /\ last_pass.files = pass_files) =>
          /\ tracks = last_pass.tracks
          /\ error_messages = last_pass.errors

C6_Witness ==
    /\ PassDone
    /\ last_pass.valid
    /\ last_pass.files = pass_files
    /\ error_messages # <<>>
    /\ \E i \in 1..Len(tracks) :
          tracks[i].duration.some /\ Cardinality(AcceptedOf(Triple(tracks[i]))) >= 2

\* the layout rule of C7, on 1-based positions: the 0-indexed odd positions are 2k
ColonAtOddPositions(lines) ==
    /\ Len(lines) % 2 = 0
    /\ \A k \in 1..(Len(lines) \div 2) : \E c \in 1..Len(lines[2 * k]) : lines[2 * k][c] = ":"

MismatchLogged(path) ==
    \E e \in 1..Len(error_messages) : error_messages[e] = CountMismatch(path)

\* C7: the parser takes a non-empty listing as alternating exactly when its line
\* count is even and every line at an odd 0-indexed position holds a colon, and
\* then the pairs are (line 2k, line 2k+1), trimmed, in that order.
C7_AlternatingLayout ==
    /\ pc = "pair" =>
          /\ is_alternating <=> ColonAtOddPositions(Lines)
          /\ is_alternating =>
                pairs = [k \in 1..(Len(Lines) \div 2) |->
                           [track |-> Trim(Lines[2 * k - 1]), duration |-> Trim(Lines[2 * k])]]
    /\ \A f \in 1..Len(pass_files) :
          (IsTxt(pass_files[f]) /\ MismatchLogged(pass_files[f])) =>
             ~ColonAtOddPositions(ReadLines(fs[pass_files[f]].lines))

C7_Witness ==
    /\ pc = "pair"
    /\ pass_files[file_idx] = TxtDrawn
    /\ is_alternating
    /\ Len(pairs) = 2
    /\ pair_idx = 2
    /\ pairs[1].track # pairs[2].track

\* C8: a listing of even length n that is not alternating is paired as
\* (line k, line k + n/2), trimmed, in that order, and gets no count-mismatch
\* diagnostic.
C8_BlockLayout ==
    /\ (pc = "pair" /\ ~ColonAtOddPositions(Lines)) =>
          pairs = [k \in 1..(Len(Lines) \div 2) |->
                     [track |-> Trim(Lines[k]),
                      duration |-> Trim(Lines[k + Len(Lines) \div 2])]]
    /\ \A f \in 1..Len(pass_files) :
          LET lines == ReadLines(fs[pass_files[f]].lines)
          IN  (IsTxt(pass_files[f]) /\ Len(lines) % 2 = 0 /\ ~ColonAtOddPositions(lines)) =>
                 ~MismatchLogged(pass_files[f])

C8_Witness ==
    /\ pc = "pair"
    /\ pass_files[file_idx] = TxtDrawn
    /\ ~is_alternating
    /\ Len(pairs) = 2
    /\ pair_idx = 2
    /\ pairs[1].duration # pairs[2].duration

OddListing == InLoop /\ IsTxt(Filename) /\ fs[Filename].exists /\ Len(Lines) % 2 = 1

\* C9: the file of an odd-length listing appends exactly one count-mismatch
\* diagnostic, leaves the registry as it is, and the pass goes on to the next
\* file; no other file gets that diagnostic.
C9_OddListingSkipped ==
    [][/\ OddListing =>
             /\ error_messages' = Append(error_messages, CountMismatch(Filename))
             /\ tracks' = tracks
             /\ pass_files' = pass_files
             /\ pc' = "file"
             /\ file_idx' = file_idx + 1
       /\ (/\ Len(error_messages') > Len(error_messages)
           /\ error_messages'[Len(error_messages')].kind = CountMismatch(<<>>).kind)
             => OddListing]_vars

\* an odd listing was skipped with records before it and a file handled after it
C9_Witness ==
    /\ PassDone
    /\ \E e \in 1..Len(error_messages) :
          /\ error_messages[e].kind = CountMismatch(<<>>).kind
          /\ error_messages[e].path = TxtDrawn
          /\ e < Len(error_messages)
    /\ \E k1, k2 \in 1..Len(accepted) : accepted[k1].file = 1 /\ accepted[k2].file = 3

InvalidsSinceFileBegan ==
    Cardinality({e \in (file_base.errors + 1)..Len(error_messages) :
                   error_messages[e].kind = InvalidDuration(<<>>, <<>>).kind})

UpsertsOfFile == Cardinality({k \in 1..Len(accepted) : accepted[k].file = file_base.file})

\* C10: a pair whose duration text is rejected appends exactly one diagnostic,
\* leaves the registry as it is, and the next pair of the file is processed;
\* at every point of a file the invalid-duration diagnostics plus the
\* inserts/updates count the pairs handled, all p of them when the file ends.
C10_InvalidDurationSkipsThePair ==
    /\ [][(InPairs /\ ~parse_duration(ThisPair.duration).some) =>
             /\ error_messages' = Append(error_messages,
                                         InvalidDuration(ThisPair.duration, ThisPair.track))
             /\ tracks' = tracks
             /\ pairs' = pairs
             /\ pair_idx' = pair_idx + 1
             /\ pair_idx < Len(pairs) => (pc' = "pair" /\ file_idx' = file_idx)]_vars
    /\ [](pc = "pair" => InvalidsSinceFileBegan + UpsertsOfFile = pair_idx - 1)
    /\ []((pc = "file" /\ file_base.file # 0 /\ file_idx = file_base.file + 1) =>
             InvalidsSinceFileBegan + UpsertsOfFile = Len(pairs))

\* the first pair of the drawn listing was rejected, the later one accepted
C10_Witness ==
    /\ pc = "file"
    /\ file_base.file = 2
    /\ file_idx = 3
    /\ Len(pairs) >= 2
    /\ InvalidsSinceFileBegan = 1
    /\ UpsertsOfFile = Len(pairs) - 1
    /\ ~parse_duration(pairs[1].duration).some

(***************************************************************************)
(* C11: one pass handles every path once, in the order of the input list   *)
(***************************************************************************)
GrewByOne(before, after) ==
    Len(after) = Len(before) + 1 /\ SubSeq(after, 1, Len(before)) = before

\* the step of a direct file: one record or one diagnostic, and the next file
DirectOutcome ==
    /\ file_idx' = file_idx + 1
    /\ pc' = "file"
    /\ \/ /\ GrewByOne(tracks, tracks')
          /\ error_messages' = error_messages
       \/ /\ tracks' = tracks
          /\ error_messages' = Append(error_messages, UnknownFormat(Filename))

\* the first step of a listing: one diagnostic and the next file, or its pairs
\* (one at least)
ListingOutcome ==
    \/ /\ file_idx' = file_idx + 1
       /\ pc' = "file"
       /\ GrewByOne(error_messages, error_messages')
       /\ tracks' = tracks
    \/ /\ file_idx' = file_idx
       /\ pc' = "pair"
       /\ pairs' # <<>>
       /\ pair_idx' = 1
       /\ tracks' = tracks
       /\ error_messages' = error_messages

\* the step of a pair: one diagnostic or one insert/update; the next file
\* follows the last pair
PairOutcome ==
    /\ pair_idx' = pair_idx + 1
    /\ \/ /\ GrewByOne(error_messages, error_messages')
          /\ tracks' = tracks
          /\ accepted' = accepted
       \/ /\ GrewByOne(accepted, accepted')
          /\ error_messages' = error_messages
          /\ GrewByOne(tracks, tracks') \/ Len(tracks') = Len(tracks)
    /\ IF pair_idx = Len(pairs)
       THEN file_idx' = file_idx + 1 /\ pc' = "file"
       ELSE file_idx' = file_idx /\ pc' = "pair"

\* C11: a pass walks the input list as it stood when the pass began, one
\* path after the other and each once, whatever diagnostics earlier paths
\* gave: a direct path gives exactly one record or exactly one
\* unrecognized-format diagnostic, a listing gives one diagnostic or at least
\* one pair, each pair one diagnostic or one insert/update, and the pass
\* returns only past the last path.
C11_EveryPathOnceInOrder ==
    [][/\ InPass => /\ pass_files = filenames
                    /\ pass_files' = pass_files
                    /\ file_idx <= Len(pass_files) + 1
                    /\ file_idx' \in {file_idx, file_idx + 1}
                    /\ pc' = "idle" => PassDone
       /\ InLoop /\ ~IsTxt(Filename) => DirectOutcome
       /\ InLoop /\ IsTxt(Filename) => ListingOutcome
       /\ InPairs => PairOutcome]_vars

\* a pass is over whose first path gave a diagnostic and whose later paths
\* gave a direct record and a listing-derived record
C11_Witness ==
    /\ PassDone
    /\ Len(pass_files) >= 3
    /\ ~IsTxt(pass_files[1])
    /\ error_messages # <<>>
    /\ error_messages[1] = UnknownFormat(pass_files[1])
    /\ \E i \in 1..Len(tracks) : ~tracks[i].duration.some
    /\ \E i \in 1..Len(tracks) : tracks[i].duration.some

(***************************************************************************)
(* C12: the label code of a record                                         *)
(***************************************************************************)
\* the table entries whose prefix is a prefix of the index uppercased
MatchingEntries(index) ==
    {k \in 1..Len(label_dict) : StartsWith(ToUppercase(index), label_dict[k].label)}

LabelCodeIsAMatch(t) ==
    IF MatchingEntries(t.index) = {} THEN t.label_code = ""
    ELSE \E k \in MatchingEntries(t.index) : t.label_code = label_dict[k].code

\* C12: the label code of every record is "" when no prefix of the table is a
\* prefix of the record's index uppercased, and otherwise the code of a table
\* entry whose prefix is one; the step that creates a record (and so resolves
\* its label) appends no diagnostic, and the table is never written.
C12_LabelCodeOfAMatchingEntry ==
    [][/\ \A i \in 1..Len(tracks') : LabelCodeIsAMatch(tracks'[i])
       /\ InPass /\ Len(tracks') > Len(tracks) => error_messages' = error_messages
       /\ label_dict' = label_dict]_vars

\* after a pass under a table that is not empty: a record whose index two
\* entries match, and a record that no entry matches
C12_Witness ==
    /\ PassDone
    /\ \E i \in 1..Len(tracks) : Cardinality(MatchingEntries(tracks[i].index)) >= 2
    /\ \E i \in 1..Len(tracks) :
          /\ MatchingEntries(tracks[i].index) = {}
          /\ tracks[i].label_code = ""
          /\ tracks[i].duration.some
    /\ \E i \in 1..Len(tracks) : ~tracks[i].duration.some /\ tracks[i].label_code # ""

(***************************************************************************)
(* C13: label matching and the case of the table's keys                    *)
(***************************************************************************)
\* the table entries whose prefix equals a prefix of the index up to letter case
MatchingUpToCase(index) ==
    {k \in 1..Len(label_dict) :
        StartsWith(ToUppercase(index), ToUppercase(label_dict[k].label))}

\* C13 as stated: whenever a table prefix equals a prefix of a record's index
\* up to letter case, whatever the case of the key, the record's label code
\* (what find_label_code returned for the index) is the code of such an entry.
C13_MatchingIgnoresCase ==
    \A i \in 1..Len(tracks) :
        MatchingUpToCase(tracks[i].index) # {} =>
            \E k \in MatchingUpToCase(tracks[i].index) :
                tracks[i].label_code = label_dict[k].code

(***************************************************************************)
(* C14: a merge changes the duration and nothing else                      *)
(***************************************************************************)
\* the pair at hand has a valid duration and its triple a record
MergingPair ==
    /\ InPairs
    /\ parse_duration(ThisPair.duration).some
    /\ FindTrack(tracks, parse_track_filename(ThisPair.track)) # 0

\* C14: the step of a listing pair that merges into a record leaves the
\* registry's length, every other record, and the record's index, title,
\* artist, label code and position as they are (its duration stays present);
\* and no step of a pass changes the triple or the label code of a record
\* that is in the registry.
C14_MergeChangesOnlyTheDuration ==
    [][/\ MergingPair =>
            LET at == FindTrack(tracks, parse_track_filename(ThisPair.track))
            IN  /\ Len(tracks') = Len(tracks)
                /\ \A i \in 1..Len(tracks) : i # at => tracks'[i] = tracks[i]
                /\ tracks'[at].duration.some
                /\ tracks'[at] = [tracks[at] EXCEPT !.duration = tracks'[at].duration]
       /\ InPass =>
            \A i \in 1..Len(tracks) :
                /\ i <= Len(tracks')
                /\ Triple(tracks'[i]) = Triple(tracks[i])
                /\ tracks'[i].label_code = tracks[i].label_code]_vars

\* a pair has just merged into a record that is not the last of the registry
\* and has a label code
C14_Witness ==
    /\ InPass
    /\ accepted # <<>>
    /\ \E i \in 1..(Len(tracks) - 1) :
          /\ accepted[Len(accepted)].triple = Triple(tracks[i])
          /\ Cardinality(AcceptedOf(Triple(tracks[i]))) >= 2
          /\ tracks[i].label_code # ""

(***************************************************************************)
(* C15: add_file                                                           *)
(***************************************************************************)
NoDuplicates(names) ==
    \A i, j \in 1..Len(names) : names[i] = names[j] => i = j

AddingFile == pc = "add" /\ dropped # <<>>

\* C15: the input list never holds a path twice; add_file of a path that is
\* present leaves the input list as it is and add_file of a new path appends
\* it (so the list is in the order of first addition), and neither touches
\* the registry or the diagnostic log; nothing but add_file writes the list.
C15_AddFileIsIdempotent ==
    [][/\ NoDuplicates(filenames')
       /\ AddingFile =>
            /\ IF \E i \in 1..Len(filenames) : filenames[i] = Head(dropped)
               THEN filenames' = filenames
               ELSE filenames' = Append(filenames, Head(dropped))
            /\ tracks' = tracks
            /\ error_messages' = error_messages
       /\ ~AddingFile => filenames' = filenames]_vars

\* after a pass that left records and diagnostics, files that were all in the
\* list have been added again: the list is the one of that pass
C15_Witness ==
    /\ pc = "add"
    /\ dropped = <<>>
    /\ last_pass.valid
    /\ filenames = last_pass.files
    /\ Len(filenames) >= 2
    /\ tracks # <<>>
    /\ error_messages # <<>>

(***************************************************************************)
(* C16: the round trip format_duration(parse_duration(x))                  *)
(***************************************************************************)
\* "S:FF": digits (one at least), a colon, exactly two digits
HasShapeSFF(x) ==
    /\ Len(x) >= 4
    /\ AllDigits(SubSeq(x, 1, Len(x) - 3))
    /\ x[Len(x) - 2] = ":"
    /\ IsDigit(x[Len(x) - 1])
    /\ IsDigit(x[Len(x)])

\* S is written as format!("{}") writes a number: no zero in front of it
HasNoLeadingZero(x) == Len(x) = 4 \/ x[1] # "0"

RoundTripReturns(x) ==
    /\ dur_pc = "parsed" => dur_seconds.some
    /\ dur_pc = "formatted" => dur_text = x

\* C16 as stated: for every text of the shape "S:FF" the round trip returns
\* the text unchanged.
C16_RoundTripOfShapeSFF == HasShapeSFF(dur_str) => RoundTripReturns(dur_str)

\* C16 amended: for every text of the shape "S:FF" whose S has no leading
\* zero (S is "0" or starts with another digit) parse_duration returns a
\* value and format_duration of that value returns the text unchanged.
C16_RoundTripOfCanonical ==
    HasShapeSFF(dur_str) /\ HasNoLeadingZero(dur_str) => RoundTripReturns(dur_str)

\* "10:05" has made the round trip
C16_Witness ==
    /\ dur_pc = "formatted"
    /\ dur_str = <<"1", "0", ":", "0", "5">>
    /\ dur_text = dur_str

(***************************************************************************)
(* C17: parse_duration                                                     *)
(***************************************************************************)
\* the positions of the separators ':' and '.' of a text, and the first of them
Separators(x) == {i \in 1..Len(x) : x[i] \in {":", "."}}

FirstSeparator(x) == CHOOSE i \in Separators(x) : \A j \in Separators(x) : i <= j

\* the end of the second part: before the second separator, or the end of the text
SecondPartEnd(x) ==
    LET later == {i \in Separators(x) : i > FirstSeparator(x)}
    IN  IF later = {} THEN Len(x)
        ELSE (CHOOSE i \in later : \A j \in later : i <= j) - 1

\* the value of the text digits \o "." \o fraction, in units of 10^-FracDigits
DecimalValue(whole, fraction) ==
    DecimalNat(whole) * Pow10(FracDigits) + DecimalNat(fraction) * Pow10(FracDigits - Len(fraction))

\* part0 without its sign, if it has one
Unsigned(part0) ==
    IF part0 # <<>> /\ part0[1] \in {"+", "-"} THEN Tail(part0) ELSE part0

\* "part0.part1" is a number: an optional sign, digits, '.', digits, with one
\* digit at least
IsNumber(part0, part1) ==
    /\ AllDigits(Unsigned(part0))
    /\ AllDigits(part1)
    /\ Len(Unsigned(part0)) + Len(part1) >= 1

ParsedAsStated(x, result) ==
    IF Separators(x) = {} THEN result = None
    ELSE LET part0 == SubSeq(x, 1, FirstSeparator(x) - 1)
             part1 == SubSeq(x, FirstSeparator(x) + 1, SecondPartEnd(x))
         IN  IF ~IsNumber(part0, part1) THEN result = None
             ELSE /\ result.some
                  /\ result.val = IF part0 # <<>> /\ part0[1] = "-"
                                  THEN 0 - DecimalValue(Unsigned(part0), part1)
                                  ELSE DecimalValue(Unsigned(part0), part1)

IsBlank(line) == Trim(line) = <<>>

WithoutBlankLines(lines) == SelectSeq(lines, LAMBDA l : ~IsBlank(l))

\* C18 as stated: the parser decides on the lines of the file with the blank
\* lines dropped: a listing without any other line gets the empty-listing
\* diagnostic and no record, and otherwise the layout, the count check and the
\* pairs are those of the lines that are not blank.
C18_BlankLinesAreDropped ==
    [][InLoop /\ IsTxt(Filename) /\ fs[Filename].exists =>
        LET kept == WithoutBlankLines(Lines)
        IN  IF kept = <<>>
            THEN /\ error_messages' = Append(error_messages, EmptyTextFile(Filename))
                 /\ tracks' = tracks
                 /\ file_idx' = file_idx + 1
            ELSE IF ~IsAlternating(kept) /\ HalvesDiffer(kept)
            THEN /\ error_messages' = Append(error_messages, CountMismatch(Filename))
                 /\ tracks' = tracks
                 /\ file_idx' = file_idx + 1
            ELSE /\ pc' = "pair"
                 /\ pairs' = BuildPairs(kept)
                 /\ error_messages' = error_messages
                 /\ tracks' = tracks]_vars

(***************************************************************************)
(* C19: records and identity triples                                       *)
(***************************************************************************)
\* C19 as stated: at every point of a pass no two records of the registry have
\* the same (index, title, artist) triple.
C19_OneRecordPerTriple ==
    InPass => \A i, j \in 1..Len(tracks) :
                 Triple(tracks[i]) = Triple(tracks[j]) => i = j

(***************************************************************************)
(* C20: direct records and listing pairs                                   *)
(***************************************************************************)
IsUpperOrUnderscore(c) == IsUppercase(c) \/ c = "_"

\* the records a step has appended
NewRecords == {tracks'[i] : i \in (Len(tracks) + 1)..Len(tracks')}

BeforeFirstDot(x) ==
    LET dots == {i \in 1..Len(x) : x[i] = "."}
    IN  IF dots = {} THEN x
        ELSE SubSeq(x, 1, (CHOOSE i \in dots : \A j \in dots : i <= j) - 1)

\* the two track texts of the drawn listing, as the file has them
FirstText == ReadLines(fs[TxtDrawn].lines)[1]
SecondText == ReadLines(fs[TxtDrawn].lines)[3]

====
